---------------------------- MODULE Spec2Model ----------------------------
(***************************************************************************)
(* Economic Intelligence Agent: the rate-limited model clients             *)
(* (GeminiAnalyzer, OpenRouterAnalyzer), the OpenRouter failover           *)
(* dispatcher, the feed/page collectors with the collection coordinator,   *)
(* and the Article enrichment done by GeminiAnalyzer.analyze_article.      *)
(*                                                                         *)
(* Time is measured in whole seconds.  The analyzers store the instants    *)
(* last_reset and last_request and only ever read them as                  *)
(* time.time() - last_reset and time.time() - last_request; the model      *)
(* keeps these two differences (since_reset, since_request).  A difference *)
(* stops growing at the first value past every threshold the code compares *)
(* it with.                                                                *)
(***************************************************************************)
EXTENDS Integers, Sequences, FiniteSets, TLC

VARIABLES
    client,     \* which analyzer class the sequential caller drives
    gemini,     \* GeminiAnalyzer: request_count and the two time differences
    router,     \* OpenRouterAnalyzer: rate-limit and quota attributes
    pc,         \* position of the caller: "idle", or "retry" inside _call_api
    entry,      \* public method the caller entered through
    posted,     \* model index the last step POSTed to, NoPost when it sent nothing
    response,   \* what the last step's request met; "refused": the call sent none
    ret,        \* value the last finished call returned
    gap,        \* observer: seconds between the last two admitted requests
    win_age,    \* observer: seconds since the request chosen as window start
    win_count,  \* observer: requests admitted in [start, start + 60)
    attempts,   \* observer: requests.post calls of the _call_api in progress
    budget,     \* a new _call_api starts only while fewer requests were answered
    org,        \* organization config: whether it lists feeds / scrape_urls
    now,        \* datetime.now(), in days
    max_articles, \* Settings.MAX_ARTICLES_PER_ORG of this run
    rss,        \* RSSCollector of the organization: cutoff_date and what collect gave
    web,        \* WebCollector of the organization: cutoff_date and what collect gave
    removed,    \* observer: articles the last lookback filter left out
    org_out,    \* value _collect_from_org returned
    results,    \* collect_all: short_name -> articles
    cpc,        \* position inside _collect_from_org / collect_all
    organizations,   \* self.organizations: short_name -> config
    orgs_to_process, \* short names collect_all submitted a task for
    pending,    \* short names whose future has not completed yet
    completed,  \* short names in the order their futures completed
    flat,       \* value get_all_articles_flat returned
    org_short_name, \* argument of collect_single, "" when it is not the caller
    single,     \* value collect_single returned
    article,    \* one Article object
    stage,      \* lifecycle of the Article: "constructed", "analyzed", "fallback"
    text,       \* _chunk_text: the text, a sequence of characters
    chunk_size, \* _chunk_text: target size per chunk
    overlap,    \* _chunk_text: overlap between chunks
    chunks,     \* _chunk_text: the list returned
    kpc,        \* "input" before the call of _chunk_text, "chunked" after it
    document,   \* extract_content: the pages of the PDF, each the images on it
    images,     \* extract_content: result.images, the byte length of each image
    batch_articles, \* analyze_batch: the list passed in (articles)
    analyzed,   \* analyze_batch: the list being returned
    idx,        \* analyze_batch: number of items the for loop has taken
    batch_size, \* analyze_batch: articles between two pauses
    bpc,        \* analyze_batch: "for", "call" (inside the loop body), "returned"
    pdf,        \* PDFProcessor: processed_urls, stats, and the responses written
    cache_dir,  \* names of the files in the cache directory
    pdf_ret,    \* what the last download_pdf returned: a cache file, or "None"
    requested,  \* whether the last download_pdf called requests.get
    pdf_url,    \* argument of the last download_pdf
    fetched,    \* observer: what a direct download_pdf call met on the network
    calls,      \* number of download_pdf calls so far
    dpc,        \* "calls": download_pdf is called from outside the loop
    major_articles, \* the candidates of the deep analysis, by url
    li,         \* number of candidates the loop has taken
    lpc,        \* position in the deep-analysis block of main.py
    quota_exhausted,     \* analyzer.quota_exhausted as the loop reads it
    deep_analyzed_count  \* reports analyzed successfully

clientVars == <<client, gemini, router, pc, entry, posted, response, ret,
               gap, win_age, win_count, attempts, budget>>

batchVars == <<organizations, orgs_to_process, pending, completed, flat,
               org_short_name, single>>

collectVars == <<org, now, max_articles, rss, web, removed, org_out, results, cpc,
                 batchVars>>

articleVars == <<article, stage>>

chunkVars == <<text, chunk_size, overlap, chunks, kpc, document, images>>

analyzeBatchVars == <<batch_articles, analyzed, idx, batch_size, bpc>>

pdfVars == <<pdf, cache_dir, pdf_ret, requested, pdf_url, fetched, calls, dpc>>

deepVars == <<major_articles, li, lpc, quota_exhausted, deep_analyzed_count>>

docVars == <<chunkVars, analyzeBatchVars, pdfVars, deepVars>>

vars == <<clientVars, collectVars, articleVars, docVars>>

-----------------------------------------------------------------------------
(* Bounds of the model *)

MaxRequests == 3        \* a new call starts only while fewer requests were answered

(* Program constants *)

GEMINI_RPM == 10        \* GeminiAnalyzer.requests_per_minute
GEMINI_MIN_DELAY == 4   \* GeminiAnalyzer.min_delay_between_requests
ROUTER_RPM == 15        \* OpenRouterAnalyzer.requests_per_minute
ROUTER_MIN_DELAY == 3   \* OpenRouterAnalyzer.min_delay
WINDOW == 60            \* seconds after which the window counter resets
WINDOW_WAIT == 65       \* a full window is waited out until last_reset + 65
NUM_MODELS == 4         \* len(FREE_MODELS)
MAX_CONSECUTIVE_ERRORS == 3
BACKOFF == 30           \* time.sleep(30 * consecutive_errors)

NoPost == 0 - 1
Off == 0 - 1
Never == WINDOW + 1     \* a time since last_reset past every threshold
Rested == GEMINI_MIN_DELAY  \* a time since last_request past every threshold

Min(a, b) == IF a < b THEN a ELSE b

\* the time differences d seconds later
later(x, d) == Min(x + d, Never)
rested(x, d) == Min(x + d, Rested)

\* time.sleep(d): returns at once for d <= 0, else after d seconds
sleep(d) == IF d > 0 THEN d ELSE 0

-----------------------------------------------------------------------------
(* GeminiAnalyzer._check_rate_limit: the attributes after the call, and the  *)
(* seconds the call slept.                                                   *)

check_rate_limit(g) ==
    LET time_since_last == g.since_request
        sleep_time == IF time_since_last < GEMINI_MIN_DELAY
                      THEN sleep(GEMINI_MIN_DELAY - time_since_last)
                      ELSE 0
        since1 == later(g.since_reset, sleep_time)    \* current_time - last_reset
        expired == since1 > WINDOW
        rc1 == IF expired THEN 0 ELSE g.request_count
        since2 == IF expired THEN 0 ELSE since1
        wait_time == WINDOW_WAIT - since2
        waits == rc1 >= GEMINI_RPM /\ wait_time > 0
        slept2 == IF waits THEN sleep(wait_time) ELSE 0
    IN  [ request_count |-> (IF waits THEN 0 ELSE rc1) + 1,
          since_reset   |-> IF waits THEN 0 ELSE since2,
          since_request |-> 0,
          gap           |-> rested(time_since_last, sleep_time + slept2),
          slept         |-> sleep_time + slept2 ]

(* OpenRouterAnalyzer._rate_limit *)

\* mutant: the minimum-delay sleep is left out
rate_limit_no_delay(r) ==
    IF r.quota_exhausted
    THEN [ admitted |-> FALSE, request_count |-> r.request_count,
           since_reset |-> r.since_reset, since_request |-> r.since_request,
           gap |-> 0, slept |-> 0 ]
    ELSE
    LET elapsed == r.since_request
        expired == r.since_reset > WINDOW
        rc1 == IF expired THEN 0 ELSE r.request_count
        since2 == IF expired THEN 0 ELSE r.since_reset
        full == rc1 >= ROUTER_RPM
        slept2 == IF full THEN sleep(WINDOW_WAIT - since2) ELSE 0
    IN  [ admitted |-> TRUE,
          request_count |-> (IF full THEN 0 ELSE rc1) + 1,
          since_reset   |-> IF full THEN 0 ELSE since2,
          since_request |-> 0,
          gap           |-> rested(elapsed, slept2),
          slept         |-> slept2 ]

\* mutant: the quota_exhausted test is left out
rate_limit_ignores_quota(r) ==
    LET elapsed == r.since_request
        slept1 == IF elapsed < ROUTER_MIN_DELAY
                  THEN sleep(ROUTER_MIN_DELAY - elapsed)
                  ELSE 0
        since1 == later(r.since_reset, slept1)
        expired == since1 > WINDOW
        rc1 == IF expired THEN 0 ELSE r.request_count
        since2 == IF expired THEN 0 ELSE since1
        full == rc1 >= ROUTER_RPM
        slept2 == IF full THEN sleep(WINDOW_WAIT - since2) ELSE 0
    IN  [ admitted |-> TRUE,
          request_count |-> (IF full THEN 0 ELSE rc1) + 1,
          since_reset   |-> IF full THEN 0 ELSE since2,
          since_request |-> 0,
          gap           |-> rested(elapsed, slept1 + slept2),
          slept         |-> slept1 + slept2 ]

\* mutant: an admitted request is not counted
rate_limit_uncounted(r) ==
    IF r.quota_exhausted
    THEN [ admitted |-> FALSE, request_count |-> r.request_count,
           since_reset |-> r.since_reset, since_request |-> r.since_request,
           gap |-> 0, slept |-> 0 ]
    ELSE
    LET elapsed == r.since_request
        slept1 == IF elapsed < ROUTER_MIN_DELAY
                  THEN sleep(ROUTER_MIN_DELAY - elapsed)
                  ELSE 0
        since1 == later(r.since_reset, slept1)
        expired == since1 > WINDOW
        rc1 == IF expired THEN 0 ELSE r.request_count
        since2 == IF expired THEN 0 ELSE since1
        full == rc1 >= ROUTER_RPM
        slept2 == IF full THEN sleep(WINDOW_WAIT - since2) ELSE 0
    IN  [ admitted |-> TRUE,
          request_count |-> IF full THEN 0 ELSE rc1,
          since_reset   |-> IF full THEN 0 ELSE since2,
          since_request |-> 0,
          gap           |-> rested(elapsed, slept1 + slept2),
          slept         |-> slept1 + slept2 ]

rate_limit(r) ==
    IF r.quota_exhausted
    THEN [ admitted |-> FALSE, request_count |-> r.request_count,
           since_reset |-> r.since_reset, since_request |-> r.since_request,
           gap |-> 0, slept |-> 0 ]
    ELSE
    LET elapsed == r.since_request
        slept1 == IF elapsed < ROUTER_MIN_DELAY
                  THEN sleep(ROUTER_MIN_DELAY - elapsed)
                  ELSE 0
        since1 == later(r.since_reset, slept1)
        expired == since1 > WINDOW
        rc1 == IF expired THEN 0 ELSE r.request_count
        since2 == IF expired THEN 0 ELSE since1
        full == rc1 >= ROUTER_RPM
        wait == WINDOW_WAIT - since2
        slept2 == IF full THEN sleep(wait) ELSE 0
    IN  [ admitted |-> TRUE,
          request_count |-> (IF full THEN 0 ELSE rc1) + 1,
          since_reset   |-> IF full THEN 0 ELSE since2,
          since_request |-> 0,
          gap           |-> rested(elapsed, slept1 + slept2),
          slept         |-> slept1 + slept2 ]

-----------------------------------------------------------------------------
(* Observer of one sliding window: any admitted request may be taken as the  *)
(* start of the window; later admissions inside [start, start + 60) are      *)
(* counted.  win_age = Off: the observer does not watch this run.            *)

Observe(slept, then) ==
    \/ /\ win_age = Never
       /\ win_age' = Min(then, WINDOW)
       /\ win_count' = 1
    \/ /\ win_age = Never
       /\ UNCHANGED <<win_age, win_count>>
    \/ /\ win_age \notin {Never, Off}
       /\ LET at == Min(win_age + slept, WINDOW) IN
          /\ win_count' = IF at < WINDOW THEN win_count + 1 ELSE win_count
          /\ win_age' = Min(at + then, WINDOW)
    \/ /\ win_age = Off
       /\ UNCHANGED <<win_age, win_count>>

Elapse(d) ==
    win_age' = IF win_age \in {Never, Off} THEN win_age ELSE Min(win_age + d, WINDOW)

-----------------------------------------------------------------------------
(* GeminiAnalyzer: one rate-limited request, as made by _generate_summary,   *)
(* _generate_analysis and the aggregate generators: _check_rate_limit, then  *)
(* model.generate_content, which returns text or raises.                     *)

GeminiOutcomes == {"text", "raised"}

gemini_request ==
    /\ client = "gemini"
    /\ pc = "idle"
    /\ \E outcome \in GeminiOutcomes :
         LET rl == check_rate_limit(gemini) IN
         /\ gemini' = [ request_count |-> rl.request_count,
                        since_reset |-> rl.since_reset,
                        since_request |-> rl.since_request ]
         /\ gap' = rl.gap
         /\ Observe(rl.slept, 0)
         /\ posted' = 0
         /\ response' = outcome
         /\ entry' = "generate_content"
         /\ ret' = IF outcome = "text" THEN "content" ELSE "fallback"
    /\ UNCHANGED <<client, router, pc, attempts, budget>>
    /\ UNCHANGED <<collectVars, articleVars>>
    /\ UNCHANGED docVars

(* The aggregate narrative methods of GeminiAnalyzer, with what the except   *)
(* branch of each returns for a non-empty article list.                      *)
GeminiAggregates == {"generate_executive_summary", "generate_top5_tldr",
                     "generate_cross_source_synthesis",
                     "generate_sentiment_analysis",
                     "generate_actionable_implications"}

gemini_fallback(m) ==
    CASE m = "generate_executive_summary" -> "This week's Global Pulse covers"
      [] m = "generate_top5_tldr" -> "[source] title"
      [] m = "generate_cross_source_synthesis" -> "This week saw coverage from"
      [] m = "generate_sentiment_analysis" -> "Sentiment analysis unavailable this week."
      [] m = "generate_actionable_implications" -> "Implications section unavailable this week."

(* One aggregate method of GeminiAnalyzer: _check_rate_limit and             *)
(* generate_content inside a try block.  generate_cross_source_synthesis     *)
(* returns a fixed sentence without a request when no theme has two sources. *)
gemini_generate(m) ==
    /\ client = "gemini"
    /\ pc = "idle"
    /\ entry' = m
    /\ \/ /\ m = "generate_cross_source_synthesis"
          /\ ret' = "Limited cross-source patterns identified this week."
          /\ posted' = NoPost
          /\ response' = "none"
          /\ UNCHANGED <<gemini, gap, win_age, win_count>>
       \/ \E outcome \in GeminiOutcomes :
            LET rl == check_rate_limit(gemini) IN
            /\ gemini' = [ request_count |-> rl.request_count,
                           since_reset |-> rl.since_reset,
                           since_request |-> rl.since_request ]
            /\ gap' = rl.gap
            /\ Observe(rl.slept, 0)
            /\ posted' = 0
            /\ response' = outcome
            /\ ret' = IF outcome = "text" THEN "content" ELSE gemini_fallback(m)
    /\ UNCHANGED <<client, router, pc, attempts, budget>>
    /\ UNCHANGED <<collectVars, articleVars>>
    /\ UNCHANGED docVars

-----------------------------------------------------------------------------
(* OpenRouterAnalyzer.current_model: the model the next payload names *)

\* mutant: the payload always names the preferred model FREE_MODELS[0]
current_model_first(r) == 0

current_model(r) == r.current_model_index

(* OpenRouterAnalyzer._switch_model *)

\* mutant: the last model is never switched to
can_switch_off_by_one(index) == index < NUM_MODELS - 2

can_switch(index) == index < NUM_MODELS - 1

\* mutant: the switch keeps the error count of the model it leaves
switch_model_keeps_errors(r) ==
    IF can_switch(r.current_model_index)
    THEN [r EXCEPT !.current_model_index = @ + 1]
    ELSE r

switch_model(r) ==
    IF can_switch(r.current_model_index)
    THEN [r EXCEPT !.current_model_index = @ + 1, !.consecutive_errors = 0]
    ELSE r

(* What requests.post and the parsing of its response can produce:           *)
(*   ok         200 and data["choices"][0]["message"]["content"] exists      *)
(*   bad_shape  200, response.json() parses, the content lookup raises       *)
(*   bad_json   200, response.json() raises                                  *)
(*   throttled  429                                                          *)
(*   error      any other status                                             *)
(*   exception  requests.post raises (timeout, connection error)             *)
Responses == {"ok", "bad_shape", "bad_json", "throttled", "error", "exception"}

(* The public methods that reach _call_api, with what each returns when the  *)
(* quota is exhausted or _call_api returns None.                             *)
Methods == {"_call_api", "generate_summary", "generate_analysis",
            "generate_executive_summary"}

fallback(m) ==
    CASE m = "_call_api" -> "None"
      [] m = "generate_summary" -> "summary[:150]"
      [] m = "generate_analysis" -> ""
      [] m = "generate_executive_summary" -> "Weekly economic intelligence"
      [] m = "generate_tldr_top5" -> ""
      [] m = "generate_sentiment" -> ""
      [] m = "generate_cross_source_synthesis" -> ""
      [] m = "generate_actionable_implications" -> ""

(* The aggregate narrative methods of OpenRouterAnalyzer, called with a      *)
(* non-empty article list.                                                   *)
AggregateMethods == {"generate_executive_summary", "generate_tldr_top5",
                     "generate_sentiment", "generate_cross_source_synthesis",
                     "generate_actionable_implications"}

\* mutant: the model is switched one throttling response early
respond_switch_early(r, resp) ==
    CASE resp = "ok" ->
           [r EXCEPT !.consecutive_errors = 0, !.successful_requests = @ + 1]
      [] resp = "bad_shape" ->
           [r EXCEPT !.consecutive_errors = 0, !.successful_requests = @ + 1,
                     !.failed_requests = @ + 1]
      [] resp = "throttled" ->
           LET r1 == [r EXCEPT !.consecutive_errors = @ + 1, !.failed_requests = @ + 1]
           IN  IF r1.consecutive_errors >= MAX_CONSECUTIVE_ERRORS - 1
               THEN IF can_switch(r1.current_model_index)
                    THEN switch_model(r1)
                    ELSE [r1 EXCEPT !.quota_exhausted = TRUE]
               ELSE r1
      [] OTHER ->
           [r EXCEPT !.failed_requests = @ + 1]

\* mutant: every failed request counts towards the switch, not only a 429
respond_any_error_counts(r, resp) ==
    CASE resp = "ok" ->
           [r EXCEPT !.consecutive_errors = 0, !.successful_requests = @ + 1]
      [] resp = "bad_shape" ->
           [r EXCEPT !.consecutive_errors = 0, !.successful_requests = @ + 1,
                     !.failed_requests = @ + 1]
      [] OTHER ->
           LET r1 == [r EXCEPT !.consecutive_errors = @ + 1, !.failed_requests = @ + 1]
           IN  IF r1.consecutive_errors >= MAX_CONSECUTIVE_ERRORS
               THEN IF can_switch(r1.current_model_index)
                    THEN switch_model(r1)
                    ELSE [r1 EXCEPT !.quota_exhausted = TRUE]
               ELSE r1

\* mutant: the model is switched only after one throttling response more
respond_switch_late(r, resp) ==
    CASE resp = "ok" ->
           [r EXCEPT !.consecutive_errors = 0, !.successful_requests = @ + 1]
      [] resp = "bad_shape" ->
           [r EXCEPT !.consecutive_errors = 0, !.successful_requests = @ + 1,
                     !.failed_requests = @ + 1]
      [] resp = "throttled" ->
           LET r1 == [r EXCEPT !.consecutive_errors = @ + 1, !.failed_requests = @ + 1]
           IN  IF r1.consecutive_errors > MAX_CONSECUTIVE_ERRORS
               THEN IF can_switch(r1.current_model_index)
                    THEN switch_model(r1)
                    ELSE [r1 EXCEPT !.quota_exhausted = TRUE]
               ELSE r1
      [] OTHER ->
           [r EXCEPT !.failed_requests = @ + 1]

\* the quota attributes after the response to an admitted request
respond(r, resp) ==
    CASE resp = "ok" ->
           [r EXCEPT !.consecutive_errors = 0, !.successful_requests = @ + 1]
      [] resp = "bad_shape" ->
           [r EXCEPT !.consecutive_errors = 0, !.successful_requests = @ + 1,
                     !.failed_requests = @ + 1]
      [] resp = "throttled" ->
           LET r1 == [r EXCEPT !.consecutive_errors = @ + 1, !.failed_requests = @ + 1]
           IN  IF r1.consecutive_errors >= MAX_CONSECUTIVE_ERRORS
               THEN IF can_switch(r1.current_model_index)
                    THEN switch_model(r1)
                    ELSE [r1 EXCEPT !.quota_exhausted = TRUE]
               ELSE r1
      [] OTHER ->
           [r EXCEPT !.failed_requests = @ + 1]

\* a 429 that did not exhaust the quota is followed by the recursive call
retries(r, resp) == resp = "throttled" /\ ~respond(r, resp).quota_exhausted

\* time.sleep(30 * self.consecutive_errors)
backoff_time(r) == sleep(BACKOFF * r.consecutive_errors)

backoff(r) ==
    [r EXCEPT !.since_reset = later(@, backoff_time(r)),
              !.since_request = rested(@, backoff_time(r))]

(* One activation of OpenRouterAnalyzer._call_api: entered by a public       *)
(* method (pc = "idle") or by the recursive call after a 429 (pc = "retry"). *)
call_api(m) ==
    /\ client = "openrouter"
    /\ \/ /\ pc = "idle"
          /\ \/ router.quota_exhausted
             \/ router.successful_requests + router.failed_requests < budget
       \/ pc = "retry" /\ m = entry
    /\ entry' = m
    /\ IF pc = "idle" /\ m # "_call_api" /\ router.quota_exhausted
       THEN \* generate_*: "if self.quota_exhausted: return <fallback>"
            /\ ret' = fallback(m)
            /\ posted' = NoPost
            /\ response' = "refused"
            /\ UNCHANGED <<router, pc, gap, win_age, win_count>>
       ELSE LET rl == rate_limit(router)
                r0 == [router EXCEPT !.request_count = rl.request_count,
                                     !.since_reset = rl.since_reset,
                                     !.since_request = rl.since_request]
            IN  IF ~rl.admitted
                THEN /\ ret' = fallback(m)
                     /\ posted' = NoPost
                     /\ response' = "refused"
                     /\ pc' = "idle"
                     /\ UNCHANGED <<router, gap, win_age, win_count>>
                ELSE \E resp \in Responses :
                     LET r1 == respond(r0, resp) IN
                     /\ posted' = current_model(router)
                     /\ response' = resp
                     /\ gap' = rl.gap
                     /\ IF retries(r0, resp)
                        THEN /\ router' = backoff(r1)
                             /\ Observe(rl.slept, backoff_time(r1))
                             /\ pc' = "retry"
                             /\ UNCHANGED ret
                        ELSE /\ router' = r1
                             /\ Observe(rl.slept, 0)
                             /\ pc' = "idle"
                             /\ ret' = IF resp = "ok" THEN "content" ELSE fallback(m)
    /\ attempts' = IF attempts = Off THEN Off
                   ELSE (IF pc = "idle" THEN 0 ELSE attempts)
                        + (IF posted' = NoPost THEN 0 ELSE 1)
    /\ UNCHANGED <<client, gemini, budget>>
    /\ UNCHANGED <<collectVars, articleVars>>
    /\ UNCHANGED docVars

(* One second passes while the caller is elsewhere (between two calls, or   *)
(* because a sleep returned late).                                           *)
Tick ==
    /\ IF client = "gemini"
       THEN /\ gemini' = [gemini EXCEPT !.since_reset = later(@, 1),
                                        !.since_request = rested(@, 1)]
            /\ UNCHANGED router
       ELSE /\ router' = [router EXCEPT !.since_reset = later(@, 1),
                                        !.since_request = rested(@, 1)]
            /\ UNCHANGED gemini
    /\ Elapse(1)
    /\ posted' = NoPost
    /\ response' = "none"
    /\ UNCHANGED <<client, pc, entry, ret, gap, win_count, attempts, budget>>
    /\ UNCHANGED <<collectVars, articleVars>>
    /\ UNCHANGED docVars

-----------------------------------------------------------------------------
(* The collectors and the collection coordinator, for one organization.      *)
(* An Article is represented here by its url and its published_date: None,   *)
(* a naive datetime (a day number), or a timezone-aware datetime (tzinfo),   *)
(* which dateutil's parser returns for a string that carries an offset.      *)

LOOKBACK_DAYS == 7              \* Settings.LOOKBACK_DAYS
MAX_ARTICLES_PER_ORG == 20      \* Settings.MAX_ARTICLES_PER_ORG
datetime_min == 0               \* datetime.min, before every date

MaxFetched == 2     \* articles the feeds (pages) of one collector yield in a run

None == 0 - 1
Today == LOOKBACK_DAYS + 2
URLS == {"u1", "u2"}
Dates == {Today - LOOKBACK_DAYS - 1, Today - LOOKBACK_DAYS, Today - 1}

Articles ==
    { a \in [url : URLS, published_date : Dates \cup {None}, tzinfo : BOOLEAN] :
        a.tzinfo => a.published_date = Today - 1 }

\* what _parse_feed / _scrape_page hand to collect, feeds that failed left out
Fetched == UNION { [1..n -> Articles] : n \in 0..MaxFetched }

\* values of the MAX_ARTICLES_PER_ORG environment setting
MaxArticlesSettings == {1, MAX_ARTICLES_PER_ORG}

(* BaseCollector.__init__: self.cutoff_date *)
cutoff_date(t, lookback_days) == t - lookback_days

(* BaseCollector.is_within_lookback, for None and for naive datetimes *)

\* mutant: the cutoff is taken one day too early
is_within_lookback_day_early(cutoff, date) ==
    IF date = None THEN TRUE ELSE date >= cutoff - 1

is_within_lookback(cutoff, date) ==
    IF date = None THEN TRUE ELSE date >= cutoff

(* "Deduplicate by URL" of _collect_from_org: the first article of each url  *)
(* is kept, in order.  RSSCollector.collect and WebCollector.collect hold    *)
(* the same loop.                                                            *)

\* mutant: nothing is removed
unique_by_url_keeps_all(articles) == articles

RECURSIVE unique_by_url(_)
unique_by_url(articles) ==
    IF articles = <<>>
    THEN <<>>
    ELSE LET n == Len(articles)
             unique_articles == unique_by_url(SubSeq(articles, 1, n - 1))
             seen_urls == { unique_articles[i].url : i \in 1..Len(unique_articles) }
         IN  IF articles[n].url \notin seen_urls
             THEN Append(unique_articles, articles[n])
             ELSE unique_articles

(* RSSCollector.collect / WebCollector.collect after the feeds (pages) were  *)
(* read: duplicates removed, then the lookback filter.  date >= cutoff_date  *)
(* raises TypeError for an aware date, cutoff_date being naive; the filter   *)
(* is outside every try of collect, so collect raises.                       *)
filtered(articles, cutoff) ==
    LET unique_articles == unique_by_url(articles)
        kept(a) == is_within_lookback(cutoff, a.published_date)
        left_out(a) == ~is_within_lookback(cutoff, a.published_date)
    IN  IF \E i \in 1..Len(unique_articles) : unique_articles[i].tzinfo
        THEN [ status |-> "raised", out |-> <<>>, removed |-> <<>> ]
        ELSE [ status |-> "returned",
               out |-> SelectSeq(unique_articles, kept),
               removed |-> SelectSeq(unique_articles, left_out) ]

\* a collector that _collect_from_org has not created yet
collector_init == [ status |-> "pending", cutoff_date |-> None, out |-> <<>> ]

(* _collect_from_org, "if org_config.get('feeds')": RSSCollector(...) and    *)
(* rss_collector.collect() inside try/except.  Reading the feeds takes time: *)
(* the WebCollector may be created a day later.                              *)
rss_collect ==
    /\ cpc = "rss"
    /\ IF org.feeds
       THEN \E articles \in Fetched, t \in {now, now + 1} :
              LET c == cutoff_date(now, LOOKBACK_DAYS)
                  r == filtered(articles, c)
              IN  /\ rss' = [ status |-> r.status, cutoff_date |-> c, out |-> r.out ]
                  /\ removed' = r.removed
                  /\ now' = t
       ELSE /\ rss' = [rss EXCEPT !.status = "skipped"]
            /\ UNCHANGED <<removed, now>>
    /\ cpc' = "web"
    /\ UNCHANGED <<org, max_articles, web, org_out, results, batchVars>>
    /\ UNCHANGED <<clientVars, articleVars>>
    /\ UNCHANGED docVars

(* _collect_from_org, "if org_config.get('scrape_urls')": WebCollector(...)  *)
(* and web_collector.collect() inside try/except.                            *)
web_collect ==
    /\ cpc = "web"
    /\ IF org.scrape_urls
       THEN \E articles \in Fetched :
              LET c == cutoff_date(now, LOOKBACK_DAYS)
                  r == filtered(articles, c)
              IN  /\ web' = [ status |-> r.status, cutoff_date |-> c, out |-> r.out ]
                  /\ removed' = r.removed
       ELSE /\ web' = [web EXCEPT !.status = "skipped"]
            /\ UNCHANGED removed
    /\ cpc' = "merge"
    /\ UNCHANGED <<org, now, max_articles, rss, org_out, results, batchVars>>
    /\ UNCHANGED <<clientVars, articleVars>>
    /\ UNCHANGED docVars

(* unique_articles.sort(key=lambda a: a.published_date or datetime.min,      *)
(* reverse=True): newest first, articles of equal key in their former order. *)
sort_key(a) == IF a.published_date = None THEN datetime_min ELSE a.published_date

RECURSIVE insert_newest_first(_, _)
insert_newest_first(a, s) ==
    IF s = <<>>
    THEN <<a>>
    ELSE IF sort_key(Head(s)) > sort_key(a)
         THEN <<Head(s)>> \o insert_newest_first(a, Tail(s))
         ELSE <<a>> \o s

RECURSIVE sort_newest_first(_)
sort_newest_first(s) ==
    IF s = <<>>
    THEN <<>>
    ELSE insert_newest_first(Head(s), sort_newest_first(Tail(s)))

\* mutant: the slice keeps the end of the list
limit_tail(s, n) == IF Len(s) > n THEN SubSeq(s, Len(s) - n + 1, Len(s)) ELSE s

\* unique_articles[:max_articles]
limit(s, n) == IF Len(s) > n THEN SubSeq(s, 1, n) ELSE s

(* _collect_from_org after both collectors: deduplicate, sort, limit.  The   *)
(* task returns the list, or an exception escapes it ("raised"): none of the *)
(* modelled inputs causes one, the handler of collect_all covers any.        *)
collect_from_org ==
    /\ cpc = "merge"
    /\ LET articles == (IF rss.status = "returned" THEN rss.out ELSE <<>>)
                       \o (IF web.status = "returned" THEN web.out ELSE <<>>)
       IN  \/ /\ org_out' = limit(sort_newest_first(unique_by_url(articles)), max_articles)
              /\ cpc' = "returned"
           \/ /\ org_out' = <<>>
              /\ cpc' = "raised"
    /\ UNCHANGED <<org, now, max_articles, rss, web, removed, results, batchVars>>
    /\ UNCHANGED <<clientVars, articleVars>>
    /\ UNCHANGED docVars

\* mutant: the mapping is rebuilt from the latest result alone
stored_alone(res, short_name, articles) ==
    [ name \in {short_name} |-> articles ]

\* results[short_name] = articles
stored(res, short_name, articles) ==
    [ name \in DOMAIN res \cup {short_name} |->
        IF name = short_name THEN articles ELSE res[name] ]

(* collect_all, one turn of "for future in as_completed(future_to_org)":     *)
(* results[short_name] = future.result(), or [] when the task raised.  The   *)
(* tasks share no state, so the model runs them one after the other, in the  *)
(* order in which their futures complete.                                    *)
collect_all ==
    /\ cpc \in {"returned", "raised"}
    /\ results' = stored(results, org.short_name,
                         IF cpc = "returned" THEN org_out ELSE <<>>)
    /\ completed' = Append(completed, org.short_name)
    /\ IF pending = {}
       THEN /\ cpc' = "done"
            /\ UNCHANGED <<org, pending, rss, web, removed, org_out>>
       ELSE \E next \in pending :
            /\ org' = organizations[next]
            /\ pending' = pending \ {next}
            /\ rss' = collector_init
            /\ web' = collector_init
            /\ removed' = <<>>
            /\ org_out' = <<>>
            /\ cpc' = "rss"
    /\ UNCHANGED <<now, max_articles, organizations, orgs_to_process, flat,
                   org_short_name, single>>
    /\ UNCHANGED <<clientVars, articleVars>>
    /\ UNCHANGED docVars

\* all_articles after "for articles in results.values(): all_articles.extend"
RECURSIVE extended(_, _)
extended(order, res) ==
    IF order = <<>> THEN <<>> ELSE res[Head(order)] \o extended(Tail(order), res)

(* CollectorManager.get_all_articles_flat(results) *)
get_all_articles_flat ==
    /\ cpc = "done"
    /\ flat' = sort_newest_first(extended(completed, results))
    /\ cpc' = "flat"
    /\ UNCHANGED <<org, now, max_articles, rss, web, removed, org_out, results>>
    /\ UNCHANGED <<organizations, orgs_to_process, pending, completed,
                   org_short_name, single>>
    /\ UNCHANGED <<clientVars, articleVars>>
    /\ UNCHANGED docVars

Organizations == {"IMF", "Fed"}

\* organizations.yaml: the IMF may list feeds and pages, the Fed lists feeds only
OrgConfigs ==
    { f \in [ Organizations ->
                [ short_name : Organizations, feeds : BOOLEAN, scrape_urls : BOOLEAN ] ] :
        /\ \A name \in Organizations : f[name].short_name = name
        /\ f["Fed"].feeds /\ ~f["Fed"].scrape_urls }

CollectParked ==
    /\ org = [ short_name |-> "IMF", feeds |-> FALSE, scrape_urls |-> FALSE ]
    /\ now = Today
    /\ max_articles = MAX_ARTICLES_PER_ORG
    /\ rss = collector_init
    /\ web = collector_init
    /\ removed = <<>>
    /\ org_out = <<>>
    /\ results = <<>>
    /\ cpc = "off"
    /\ organizations = [ name \in Organizations |->
                           [ short_name |-> name, feeds |-> FALSE, scrape_urls |-> FALSE ] ]
    /\ orgs_to_process = {}
    /\ pending = {}
    /\ completed = <<>>
    /\ flat = <<>>
    /\ org_short_name = ""
    /\ single = <<>>

CollectInit ==
    /\ organizations \in OrgConfigs
    /\ orgs_to_process \in SUBSET Organizations \ {{}}
    /\ \E first \in orgs_to_process :
         /\ org = organizations[first]
         /\ pending = orgs_to_process \ {first}
    /\ now = Today
    /\ max_articles \in MaxArticlesSettings
    /\ rss = collector_init
    /\ web = collector_init
    /\ removed = <<>>
    /\ org_out = <<>>
    /\ results = <<>>
    /\ completed = <<>>
    /\ flat = <<>>
    /\ org_short_name = ""
    /\ single = <<>>
    /\ cpc = "rss"

(* CollectorManager.collect_single(org_short_name).  The names a caller may  *)
(* pass: a short name as configured, in lower case, or of no organization.   *)
Names == {"IMF", "imf", "Fed", "fed", "ECB"}

\* str.lower()
lower(name) ==
    CASE name = "IMF" -> "imf"
      [] name = "Fed" -> "fed"
      [] name = "ECB" -> "ecb"
      [] OTHER -> name

\* collect_all, "if specific_orgs:": the organizations whose short name, in
\* lower case, is among the lower-cased names asked for
matching(orgs, specific_orgs) ==
    { o \in DOMAIN orgs :
        lower(orgs[o].short_name) \in { lower(name) : name \in specific_orgs } }

\* result.get(org_short_name, [])
get(result, name) == IF name \in DOMAIN result THEN result[name] ELSE <<>>

\* collect_single up to the first task of collect_all(max_workers=1,
\* specific_orgs=[org_short_name]); without a task the loop ends at once
SingleInit ==
    /\ organizations \in OrgConfigs
    /\ org_short_name \in Names
    /\ orgs_to_process = matching(organizations, {org_short_name})
    /\ IF orgs_to_process = {}
       THEN /\ org = [ short_name |-> "IMF", feeds |-> FALSE, scrape_urls |-> FALSE ]
            /\ pending = {}
            /\ cpc = "done"
       ELSE /\ \E first \in orgs_to_process :
                 /\ org = organizations[first]
                 /\ pending = orgs_to_process \ {first}
            /\ cpc = "rss"
    /\ now = Today
    /\ max_articles \in MaxArticlesSettings
    /\ rss = collector_init
    /\ web = collector_init
    /\ removed = <<>>
    /\ org_out = <<>>
    /\ results = <<>>
    /\ completed = <<>>
    /\ flat = <<>>
    /\ single = <<>>

\* collect_single, its return statement
collect_single ==
    /\ cpc = "done"
    /\ org_short_name # ""
    /\ single' = get(results, org_short_name)
    /\ cpc' = "single"
    /\ UNCHANGED <<org, now, max_articles, rss, web, removed, org_out, results>>
    /\ UNCHANGED <<organizations, orgs_to_process, pending, completed, flat,
                   org_short_name>>
    /\ UNCHANGED <<clientVars, articleVars>>
    /\ UNCHANGED docVars

SingleNext ==
    \/ rss_collect
    \/ web_collect
    \/ collect_from_org
    \/ collect_all
    \/ collect_single

CollectNext ==
    \/ rss_collect
    \/ web_collect
    \/ collect_from_org
    \/ collect_all
    \/ get_all_articles_flat

-----------------------------------------------------------------------------
(* Article enrichment by GeminiAnalyzer.analyze_article.  An Article is      *)
(* represented here by what the scoring reads: source, content_type, and     *)
(* whether the title holds a key phrase of _is_major_item, a critical        *)
(* keyword of _calculate_importance, and whether _is_expert_opinion finds a  *)
(* recognized authority; plus the fields the analyzer writes.  ai_category   *)
(* and themes follow from the words of the title and summary.                *)

major_types == {"report", "working_paper", "speech", "data_release"}
major_orgs == {"IMF", "World Bank", "RBI", "OECD", "WEF", "BIS", "McKinsey",
               "Deloitte", "BCG", "PwC", "Goldman Sachs", "JP Morgan",
               "Brookings", "PIIE"}
critical_sources == {"Fed", "ECB", "RBI", "IMF", "World Bank", "BoE", "BoJ", "PBoC"}
high_sources == {"OECD", "WEF", "BIS", "McKinsey", "Goldman Sachs", "JP Morgan"}

Sources == {"Fed", "IMF", "OECD", "Brookings", "CEPR"}
ContentTypes == {"article", "report", "speech", "working_paper", "expert_opinion"}
SummaryOutcomes == {"text", "empty", "raised"}
RaisePoints == {"never", "_is_major_item", "_generate_analysis"}
\* what the summary of the article speaks of, as far as the keyword tables go
SummaryWords == {"", "interest rate, inflation", "climate"}

(* Article(...): the dataclass defaults of the analyzer-populated fields *)
Article(source, content_type, key_phrase, critical_keyword, expert) ==
    [ source |-> source, content_type |-> content_type,
      key_phrase |-> key_phrase, critical_keyword |-> critical_keyword,
      expert |-> expert,
      ai_summary |-> "", ai_analysis |-> "", ai_category |-> "",
      themes |-> <<>>,
      importance_score |-> 0, importance_level |-> "",
      verification_status |-> "unverified" ]

NewArticles ==
    { Article(s, c, k, w, e) :
        s \in Sources, c \in ContentTypes, k \in BOOLEAN, w \in BOOLEAN, e \in BOOLEAN }

(* GeminiAnalyzer._is_major_item; _is_expert_opinion is reached only when    *)
(* the three tests before it fail, and tags the article when it succeeds.    *)
is_major_without_opinion(a) ==
    \/ a.content_type \in major_types
    \/ a.source \in major_orgs
    \/ a.key_phrase

is_major_item(a) == is_major_without_opinion(a) \/ a.expert

\* the article after _is_major_item ran
tagged(a) ==
    IF ~is_major_without_opinion(a) /\ a.expert
    THEN [a EXCEPT !.content_type = "expert_opinion"]
    ELSE a

\* mutant: the keyword boost is one point
calculate_importance_small_keyword(a) ==
    LET base == 3
        source_boost == IF a.source \in critical_sources THEN 3
                        ELSE IF a.source \in high_sources THEN 2 ELSE 0
        type_boost == IF a.content_type \in {"report", "data_release", "speech"} THEN 2
                      ELSE IF a.content_type \in {"working_paper", "expert_opinion"} THEN 1
                      ELSE 0
        keyword_boost == IF a.critical_keyword THEN 1 ELSE 0
    IN  Min(base + source_boost + type_boost + keyword_boost, 10)

(* GeminiAnalyzer._calculate_importance *)
calculate_importance(a) ==
    LET base == 3
        source_boost == IF a.source \in critical_sources THEN 3
                        ELSE IF a.source \in high_sources THEN 2 ELSE 0
        type_boost == IF a.content_type \in {"report", "data_release", "speech"} THEN 2
                      ELSE IF a.content_type \in {"working_paper", "expert_opinion"} THEN 1
                      ELSE 0
        keyword_boost == IF a.critical_keyword THEN 2 ELSE 0
    IN  Min(base + source_boost + type_boost + keyword_boost, 10)

(* GeminiAnalyzer._categorize: the first category with a keyword in the text *)
categorize(words) ==
    IF words = "interest rate, inflation" THEN "Monetary Policy" ELSE "General Economic"

(* GeminiAnalyzer._assign_themes: every theme with a keyword in the text,    *)
(* ['General Economic'] when there is none                                   *)
assign_themes(words) ==
    LET themes == CASE words = "interest rate, inflation" ->
                          <<"Monetary Policy", "Inflation">>
                    [] words = "climate" -> <<"Climate & ESG">>
                    [] OTHER -> <<>>
    IN  IF themes # <<>> THEN themes ELSE <<"General Economic">>

(* GeminiAnalyzer._get_importance_level *)
get_importance_level(score) ==
    IF score >= 8 THEN "Critical"
    ELSE IF score >= 5 THEN "Important"
    ELSE "Standard"

\* the except branch of analyze_article
fallback_article(a) ==
    [a EXCEPT !.ai_summary = "summary[:150]", !.ai_analysis = "",
              !.ai_category = "General",
              !.importance_score = 3, !.importance_level = "Standard"]

\* the attributes _check_rate_limit leaves in the analyzer
limited(rl) == [ request_count |-> rl.request_count,
                 since_reset |-> rl.since_reset,
                 since_request |-> rl.since_request ]

(* GeminiAnalyzer.analyze_article: one request for the summary, a second one *)
(* for the analysis of a major item; an exception anywhere in the try block  *)
(* leads to the fallback values.                                             *)
analyze_article ==
    /\ client = "gemini"
    /\ pc = "idle"
    /\ stage = "constructed"
    /\ win_age = Off
    /\ \E raise_at \in RaisePoints, summary \in SummaryOutcomes,
          analysis \in GeminiOutcomes, words \in SummaryWords :
         LET rl1 == check_rate_limit(gemini)
             rl2 == check_rate_limit(limited(rl1))
             a1 == [article EXCEPT !.ai_summary =
                       CASE summary = "text" -> "text"
                         [] summary = "empty" -> ""
                         [] summary = "raised" -> "summary[:150]"]
             major == is_major_item(a1)
             a2 == tagged(a1)
             a3 == IF major
                   THEN [a2 EXCEPT !.ai_analysis = IF analysis = "text" THEN "text" ELSE ""]
                   ELSE a2
             score == calculate_importance(a3)
         IN  /\ raise_at = "_generate_analysis" => major
             /\ gemini' = IF major /\ raise_at # "_is_major_item"
                          THEN limited(rl2) ELSE limited(rl1)
             /\ gap' = IF major /\ raise_at # "_is_major_item" THEN rl2.gap ELSE rl1.gap
             /\ response' = IF major /\ raise_at = "never" THEN analysis
                            ELSE IF summary = "raised" THEN "raised" ELSE "text"
             /\ article' =
                  CASE raise_at = "_is_major_item" -> fallback_article(a1)
                    [] raise_at = "_generate_analysis" -> fallback_article(a2)
                    [] raise_at = "never" ->
                         [a3 EXCEPT !.ai_category = categorize(words),
                                    !.themes = assign_themes(words),
                                    !.importance_score = score,
                                    !.importance_level = get_importance_level(score),
                                    !.verification_status =
                                        IF a3.ai_summary # "" THEN "verified"
                                        ELSE "unverified"]
             /\ stage' = IF raise_at = "never" THEN "analyzed" ELSE "fallback"
    /\ posted' = 0
    /\ entry' = "analyze_article"
    /\ ret' = "article"
    /\ UNCHANGED <<client, router, pc, win_age, win_count, attempts, budget>>
    /\ UNCHANGED collectVars
    /\ UNCHANGED docVars

(* The next Article is constructed (create_article of a collector). *)
create_article ==
    /\ stage \in {"analyzed", "fallback"}
    /\ article' \in NewArticles
    /\ stage' = "constructed"
    /\ UNCHANGED <<clientVars, collectVars>>
    /\ UNCHANGED docVars

ArticleParked ==
    /\ article = Article("CEPR", "article", FALSE, FALSE, FALSE)
    /\ stage = "off"

ArticleInit ==
    /\ article \in NewArticles
    /\ stage = "constructed"

ArticleNext ==
    \/ analyze_article
    \/ create_article

-----------------------------------------------------------------------------
(* GeminiAnalyzer.analyze_batch: the for loop takes the batch_articles in list     *)
(* order, calls analyze_article on each (the action above) and appends the   *)
(* returned article; after every batch_size batch_articles it sleeps 2 seconds.    *)
(* `batch_articles` records the items as they were passed in.                      *)

MaxBatch == 2
BATCH_PAUSE == 2                \* time.sleep(2)
BatchSizes == {2, 10}           \* batch_size: int = 10, and a size the bound reaches

BatchArticles ==
    { Article("Fed", "report", FALSE, TRUE, FALSE),
      Article("CEPR", "article", FALSE, FALSE, TRUE),
      Article("CEPR", "article", FALSE, FALSE, FALSE) }

Batches == UNION { [1..n -> BatchArticles] : n \in 0..MaxBatch }

\* for i, article in enumerate(articles): the next item, or the return
batch_iterate ==
    /\ bpc = "for"
    /\ IF idx < Len(batch_articles)
       THEN /\ article' = batch_articles[idx + 1]
            /\ stage' = "constructed"
            /\ idx' = idx + 1
            /\ bpc' = "call"
       ELSE /\ bpc' = "returned"
            /\ UNCHANGED <<article, stage, idx>>
    /\ UNCHANGED <<batch_articles, analyzed, batch_size>>
    /\ UNCHANGED <<clientVars, collectVars, chunkVars, pdfVars, deepVars>>

\* mutant: a fallback article is left out of the result
appended_unless_fallback(list, a, outcome) ==
    IF outcome = "fallback" THEN list ELSE Append(list, a)

\* analyzed.append(analyzed_article)
appended(list, a, outcome) == Append(list, a)

\* the rest of the loop body once analyze_article returned
batch_append ==
    /\ bpc = "call"
    /\ stage \in {"analyzed", "fallback"}
    /\ analyzed' = appended(analyzed, article, stage)
    /\ IF idx % batch_size = 0
       THEN gemini' = [gemini EXCEPT !.since_reset = later(@, sleep(BATCH_PAUSE)),
                                     !.since_request = rested(@, sleep(BATCH_PAUSE))]
       ELSE UNCHANGED gemini
    /\ bpc' = "for"
    /\ UNCHANGED <<batch_articles, idx, batch_size>>
    /\ UNCHANGED <<client, router, pc, entry, posted, response, ret, gap,
                   win_age, win_count, attempts, budget>>
    /\ UNCHANGED <<collectVars, articleVars, chunkVars, pdfVars, deepVars>>

BatchParked ==
    /\ batch_articles = <<>>
    /\ analyzed = <<>>
    /\ idx = 0
    /\ batch_size = 0
    /\ bpc = "off"

BatchInit ==
    /\ batch_articles \in Batches
    /\ analyzed = <<>>
    /\ idx = 0
    /\ batch_size \in BatchSizes
    /\ bpc = "for"

BatchNext ==
    \/ batch_iterate
    \/ analyze_article
    \/ batch_append

-----------------------------------------------------------------------------
(* PDFProcessor._chunk_text.  A text is a sequence of characters; indices    *)
(* in the operators below count from 0 as in the code.  The defaults         *)
(* (chunk_size 8000, overlap 500) are scaled down, keeping                   *)
(* overlap < chunk_size // 2.                                                *)

MaxTextLen == 7

Chars == {"a", " ", ".", "\n"}
Whitespace == {" ", "\n"}
Texts == UNION { [1..n -> Chars] : n \in 0..MaxTextLen }
ChunkSettings == { <<4, 1>>, <<6, 2>> }     \* <<chunk_size, overlap>>

\* str.strip()
RECURSIVE lstrip(_)
lstrip(s) ==
    IF s # <<>> /\ Head(s) \in Whitespace THEN lstrip(Tail(s)) ELSE s

RECURSIVE rstrip(_)
rstrip(s) ==
    IF s # <<>> /\ s[Len(s)] \in Whitespace
    THEN rstrip(SubSeq(s, 1, Len(s) - 1))
    ELSE s

strip(s) == rstrip(lstrip(s))

\* text.rfind(sub, lo, hi): the highest index at which sub lies within
\* text[lo:hi], or -1
rfind(s, sub, lo, hi) ==
    LET top == Min(hi, Len(s))
        found == { i \in lo..(top - Len(sub)) : SubSeq(s, i + 1, i + Len(sub)) = sub }
    IN  IF found = {} THEN 0 - 1 ELSE CHOOSE i \in found : \A j \in found : j <= i

\* mutant: the slice takes one character more
slice_one_more(s, from, to) == SubSeq(s, from + 1, Min(to + 1, Len(s)))

\* text[from:to]
slice(s, from, to) == SubSeq(s, from + 1, Min(to, Len(s)))

\* mutant: the next window starts where the previous one ended
next_start_at_end(s, lap, end) == IF end < Len(s) THEN end ELSE Len(s)

\* start = end - overlap if end < len(text) else len(text)
next_start(s, lap, end) == IF end < Len(s) THEN end - lap ELSE Len(s)

\* the while loop of _chunk_text: the windows <<start, end>> it cuts, in order
RECURSIVE chunk_loop(_, _, _, _, _)
chunk_loop(s, size, lap, start, acc) ==
    IF ~(start < Len(s))
    THEN acc
    ELSE LET reach == start + size
             para_break == rfind(s, <<"\n", "\n">>, start + size \div 2, reach)
             sentence_break == rfind(s, <<".", " ">>, start + size \div 2, reach)
             end == IF reach < Len(s)
                    THEN IF para_break > start THEN para_break
                         ELSE IF sentence_break > start THEN sentence_break + 1
                         ELSE reach
                    ELSE reach
         IN  chunk_loop(s, size, lap, next_start(s, lap, end),
                        Append(acc, <<start, end>>))

\* the windows of one call: the whole text when it fits one chunk
chunk_windows(s, size, lap) ==
    IF Len(s) <= size THEN << <<0, Len(s)>> >> ELSE chunk_loop(s, size, lap, 0, <<>>)

\* chunk = text[start:end].strip(); if chunk: chunks.append(chunk)
RECURSIVE stripped_chunks(_, _)
stripped_chunks(s, windows) ==
    IF windows = <<>>
    THEN <<>>
    ELSE LET chunk == strip(slice(s, Head(windows)[1], Head(windows)[2]))
         IN  (IF chunk # <<>> THEN <<chunk>> ELSE <<>>)
               \o stripped_chunks(s, Tail(windows))

chunk_text(s, size, lap) ==
    IF Len(s) <= size
    THEN IF strip(s) # <<>> THEN <<s>> ELSE <<>>
    ELSE stripped_chunks(s, chunk_windows(s, size, lap))

(* One call of _chunk_text(text, chunk_size, overlap) *)
call_chunk_text ==
    /\ kpc = "input"
    /\ chunks' = chunk_text(text, chunk_size, overlap)
    /\ kpc' = "chunked"
    /\ UNCHANGED <<text, chunk_size, overlap, document, images>>
    /\ UNCHANGED <<clientVars, collectVars, articleVars, analyzeBatchVars, pdfVars,
                   deepVars>>

ChunkParked ==
    /\ text = <<>>
    /\ chunk_size = 0
    /\ overlap = 0
    /\ chunks = <<>>
    /\ kpc = "off"
    /\ document = <<>>
    /\ images = <<>>

ChunkInit ==
    /\ text \in Texts
    /\ \E setting \in ChunkSettings :
         /\ chunk_size = setting[1]
         /\ overlap = setting[2]
    /\ chunks = <<>>
    /\ kpc = "input"
    /\ document = <<>>
    /\ images = <<>>

-----------------------------------------------------------------------------
(* PDFProcessor.download_pdf.  The cache directory is the set of file names  *)
(* (URL hashes) that exist in it; `written` remembers, for the files written *)
(* during the run, the response each was written from.                       *)

MaxDownloads == 3

PdfUrls == {"https://a/report.pdf", "https://a/download/7"}

\* hashlib.md5(url.encode()).hexdigest()[:12]
url_hash(url) ==
    CASE url = "https://a/report.pdf" -> "1ef5545137c1"
      [] url = "https://a/download/7" -> "3a3697a697ab"

Hashes == { url_hash(u) : u \in PdfUrls }

\* url.lower().endswith('.pdf')
ends_with_pdf(url) == url = "https://a/report.pdf"

ContentTypeHeaders == {"application/pdf", "text/html"}

\* 'pdf' in content_type
mentions_pdf(content_type) == content_type = "application/pdf"

(* What requests.get meets: it raises, the status is an error, or a 200      *)
(* arrives with a content-type, a body that starts with %PDF or not, a body  *)
(* (stream=True: read on the first use of response.content) that arrives or  *)
(* breaks off, and a cache file that can be opened for writing or not.       *)
Fetches ==
    { [status |-> s, content_type |-> "text/html", magic |-> FALSE,
       body_read |-> TRUE, writable |-> TRUE] : s \in {"exception", "http_error"} }
    \cup
    { [status |-> "ok", content_type |-> c, magic |-> m, body_read |-> b,
       writable |-> w] :
        c \in ContentTypeHeaders, m \in BOOLEAN, b \in BOOLEAN, w \in BOOLEAN }

pdf_init ==
    [ processed_urls |-> {},
      stats |-> [downloaded |-> 0, extracted |-> 0, failed |-> 0, skipped |-> 0],
      written |-> {} ]

\* mutant: the cache is not consulted
cache_exists_never(dir, cache_path) == FALSE

\* cache_path.exists()
cache_exists(dir, cache_path) == cache_path \in dir

\* mutant: the extension of the URL does not stand in for the checks
is_unconfirmed_without_extension(url, fetch) ==
    ~mentions_pdf(fetch.content_type)

\* the magic bytes are looked at only for these responses
is_unconfirmed(url, fetch) ==
    ~mentions_pdf(fetch.content_type) /\ ~ends_with_pdf(url)

\* the except branches: self.stats['failed'] += 1; return None
download_failed(p, dir, req) ==
    [ pdf |-> [p EXCEPT !.stats.failed = @ + 1], dir |-> dir,
      ret |-> "None", requested |-> req ]

(* The result of download_pdf(url): the processor, the cache directory, the  *)
(* returned path and whether requests.get was called.                        *)
download(p, dir, url, fetch) ==
    LET cache_path == url_hash(url) IN
    IF url \in p.processed_urls
    THEN [pdf |-> p, dir |-> dir, ret |-> "None", requested |-> FALSE]
    ELSE IF cache_exists(dir, cache_path)
    THEN [pdf |-> [p EXCEPT !.processed_urls = @ \cup {url}], dir |-> dir,
          ret |-> cache_path, requested |-> FALSE]
    ELSE IF fetch.status # "ok"
    THEN download_failed(p, dir, TRUE)
    ELSE IF is_unconfirmed(url, fetch) /\ ~fetch.body_read
    THEN download_failed(p, dir, TRUE)
    ELSE IF is_unconfirmed(url, fetch) /\ ~fetch.magic
    THEN [pdf |-> [p EXCEPT !.stats.skipped = @ + 1], dir |-> dir,
          ret |-> "None", requested |-> TRUE]
    ELSE IF ~fetch.writable
    THEN download_failed(p, dir, TRUE)
    ELSE IF ~fetch.body_read
    THEN \* open() created the file, response.content raised: an empty file
         download_failed(p, dir \cup {cache_path}, TRUE)
    ELSE [pdf |-> [p EXCEPT !.processed_urls = @ \cup {url},
                            !.stats.downloaded = @ + 1,
                            !.written = @ \cup {<<cache_path, fetch.content_type,
                                                  fetch.magic>>}],
          dir |-> dir \cup {cache_path},
          ret |-> cache_path, requested |-> TRUE]

\* one call of download_pdf, for any URL
download_pdf ==
    /\ dpc = "calls"
    /\ calls < MaxDownloads
    /\ \E u \in PdfUrls, fetch \in Fetches :
         LET d == download(pdf, cache_dir, u, fetch) IN
         /\ pdf' = d.pdf
         /\ cache_dir' = d.dir
         /\ pdf_ret' = d.ret
         /\ requested' = d.requested
         /\ pdf_url' = u
         /\ fetched' = fetch
    /\ calls' = calls + 1
    /\ UNCHANGED dpc
    /\ UNCHANGED <<clientVars, collectVars, articleVars, chunkVars, analyzeBatchVars,
                   deepVars>>

PdfParked ==
    /\ pdf = pdf_init
    /\ cache_dir = {}
    /\ pdf_ret = "None"
    /\ requested = FALSE
    /\ pdf_url = "none"
    /\ fetched = CHOOSE f \in Fetches : f.status = "exception"
    /\ calls = 0
    /\ dpc = "off"

\* PDFProcessor.__init__; the cache directory may hold files of an earlier run
PdfInit ==
    /\ pdf = pdf_init
    /\ cache_dir \in SUBSET Hashes
    /\ pdf_ret = "None"
    /\ requested = FALSE
    /\ pdf_url = "none"
    /\ fetched = CHOOSE f \in Fetches : f.status = "exception"
    /\ calls = 0
    /\ dpc = "calls"

-----------------------------------------------------------------------------
(* The deep-analysis loop of main.py over the articles that                  *)
(* should_deep_analyze selects, each represented by its url.  The analyzer   *)
(* is used through analyzer.quota_exhausted and                              *)
(* analyzer.deep_analyze_report(extracted, article), which the loop reads    *)
(* and calls: the report analysis succeeds or not, and the quota may become  *)
(* exhausted during it and then stays so.                                    *)

MaxCandidates == 4

Candidates == UNION { [1..n -> PdfUrls] : n \in 0..MaxCandidates }

ExtractOutcomes == {"extracted", "raised"}

\* mutant: a failed extraction is not counted
extract_uncounted(p, outcome) ==
    IF outcome = "extracted"
    THEN [p EXCEPT !.stats.extracted = @ + 1]
    ELSE p

(* PDFProcessor.extract_content: extraction_success with                     *)
(* stats['extracted'] += 1, or the except branch with stats['failed'] += 1.  *)
extract_content(p, outcome) ==
    IF outcome = "extracted"
    THEN [p EXCEPT !.stats.extracted = @ + 1]
    ELSE [p EXCEPT !.stats.failed = @ + 1]

\* PDFProcessor.cleanup: every cached file is removed, the tracking is reset
cleanup(p) == [p EXCEPT !.processed_urls = {}]

\* if not analyzer.quota_exhausted: pdf_processor = PDFProcessor(); ...
deep_start ==
    /\ lpc = "start"
    /\ lpc' = IF quota_exhausted THEN "skipped" ELSE "for"
    /\ UNCHANGED <<major_articles, li, quota_exhausted, deep_analyzed_count>>
    /\ UNCHANGED <<clientVars, collectVars, articleVars, chunkVars, analyzeBatchVars,
                   pdfVars>>

(* The head of the loop body: the loop ends when the list is used up or the  *)
(* quota is exhausted (cleanup and get_stats follow it); otherwise the next  *)
(* candidate is downloaded.                                                  *)
deep_download ==
    /\ lpc = "for"
    /\ IF li >= Len(major_articles) \/ quota_exhausted
       THEN /\ pdf' = cleanup(pdf)
            /\ cache_dir' = {}
            /\ lpc' = "done"
            /\ UNCHANGED <<li, pdf_ret, requested, pdf_url, fetched, calls>>
       ELSE \E fetch \in Fetches :
            LET d == download(pdf, cache_dir, major_articles[li + 1], fetch) IN
            /\ pdf' = d.pdf
            /\ cache_dir' = d.dir
            /\ pdf_ret' = d.ret
            /\ requested' = d.requested
            /\ pdf_url' = major_articles[li + 1]
            /\ calls' = calls + 1
            /\ li' = li + 1
            /\ lpc' = IF d.ret # "None" THEN "extract" ELSE "for"
    /\ UNCHANGED <<major_articles, quota_exhausted, deep_analyzed_count, dpc, fetched>>
    /\ UNCHANGED <<clientVars, collectVars, articleVars, chunkVars, analyzeBatchVars>>

\* extracted = pdf_processor.extract_content(pdf_path)
deep_extract ==
    /\ lpc = "extract"
    /\ \E outcome \in ExtractOutcomes :
         /\ pdf' = extract_content(pdf, outcome)
         /\ lpc' = IF outcome = "extracted" THEN "analyze" ELSE "for"
    /\ UNCHANGED <<major_articles, li, quota_exhausted, deep_analyzed_count>>
    /\ UNCHANGED <<cache_dir, pdf_ret, requested, pdf_url, fetched, calls, dpc>>
    /\ UNCHANGED <<clientVars, collectVars, articleVars, chunkVars, analyzeBatchVars>>

\* the report analysis: deep_result['success'], and the quota after it
deep_analyze_report ==
    /\ lpc = "analyze"
    /\ \E success \in BOOLEAN, exhausted \in BOOLEAN :
         /\ deep_analyzed_count' = IF success THEN deep_analyzed_count + 1
                                   ELSE deep_analyzed_count
         /\ quota_exhausted' = exhausted
    /\ lpc' = "for"
    /\ UNCHANGED <<major_articles, li>>
    /\ UNCHANGED <<clientVars, collectVars, articleVars, chunkVars, analyzeBatchVars,
                   pdfVars>>

DeepParked ==
    /\ major_articles = <<>>
    /\ li = 0
    /\ lpc = "off"
    /\ quota_exhausted = FALSE
    /\ deep_analyzed_count = 0

DeepInit ==
    /\ major_articles \in Candidates
    /\ li = 0
    /\ lpc = "start"
    /\ quota_exhausted \in BOOLEAN
    /\ deep_analyzed_count = 0

DeepNext ==
    \/ deep_start
    \/ deep_download
    \/ deep_extract
    \/ deep_analyze_report

(* The image loop of PDFProcessor.extract_content.  A page is the sequence of *)
(* its images, an image the byte length extract_image yields for it, or      *)
(* Unreadable when extract_image raises.                                     *)

MaxPages == 3
IMAGE_MIN_BYTES == 10240
MAX_IMAGES == 10
Unreadable == 0 - 1

Repeat(x, n) == [i \in 1..n |-> x]

PageImages ==
    { <<>>,
      <<IMAGE_MIN_BYTES>>,
      <<Unreadable, IMAGE_MIN_BYTES + 1>>,
      Repeat(IMAGE_MIN_BYTES + 1, 4),
      Repeat(20000, 6) \o <<512>>,
      Repeat(20000, MAX_IMAGES + 1) }

Documents == UNION { [1..n -> PageImages] : n \in 0..MaxPages }

\* the images of one page that pass `len(image_bytes) > 10240`
significant(page) ==
    SelectSeq(page, LAMBDA image_bytes :
                        image_bytes # Unreadable /\ image_bytes > IMAGE_MIN_BYTES)

\* the loop over the pages: `if len(result.images) < 10:` is tested per page
RECURSIVE extract_images(_, _)
extract_images(pages, acc) ==
    IF pages = <<>>
    THEN acc
    ELSE extract_images(Tail(pages),
                        IF Len(acc) < MAX_IMAGES
                        THEN acc \o significant(Head(pages))
                        ELSE acc)

(* One call of extract_content(pdf_path): the images of the pages read before *)
(* the call ended (all of them unless it raised), and the counters           *)
call_extract_content ==
    /\ kpc = "document"
    /\ \E outcome \in ExtractOutcomes, read \in 0..Len(document) :
         /\ outcome = "extracted" => read = Len(document)
         /\ images' = extract_images(SubSeq(document, 1, read), <<>>)
         /\ pdf' = extract_content(pdf, outcome)
    /\ kpc' = "extracted"
    /\ UNCHANGED <<text, chunk_size, overlap, chunks, document>>
    /\ UNCHANGED <<cache_dir, pdf_ret, requested, pdf_url, fetched, calls, dpc>>
    /\ UNCHANGED <<clientVars, collectVars, articleVars, analyzeBatchVars, deepVars>>

ExtractInit ==
    /\ text = <<>>
    /\ chunk_size = 0
    /\ overlap = 0
    /\ chunks = <<>>
    /\ kpc = "document"
    /\ document \in Documents
    /\ images = <<>>

DocParked ==
    /\ ChunkParked
    /\ BatchParked
    /\ PdfParked
    /\ DeepParked

-----------------------------------------------------------------------------
(* State after GeminiAnalyzer.__init__ / OpenRouterAnalyzer.__init__:        *)
(* last_reset = time.time(), last_request = 0 (the epoch, long ago).         *)

gemini_init == [ request_count |-> 0, since_reset |-> 0, since_request |-> Rested ]

router_init == [ request_count |-> 0, since_reset |-> 0, since_request |-> Rested,
                 current_model_index |-> 0, consecutive_errors |-> 0,
                 quota_exhausted |-> FALSE,
                 successful_requests |-> 0, failed_requests |-> 0 ]

ClientInit ==
    /\ client \in {"gemini", "openrouter"}
    /\ gemini = gemini_init
    /\ router = router_init
    /\ pc = "idle"
    /\ entry = "none"
    /\ posted = NoPost
    /\ response = "none"
    /\ ret = "none"
    /\ gap = Rested
    /\ win_count = 0
    /\ attempts = Off
    /\ budget = MaxRequests

Init ==
    /\ ClientInit
    /\ win_age = Off
    /\ CollectParked
    /\ ArticleParked
    /\ DocParked

ClientNext ==
    \/ gemini_request
    \/ \E m \in Methods : call_api(m)
    \/ Tick

Next ==
    \/ ClientNext

Spec == Init /\ [][Next]_vars

(* The same client with the sliding-window observer watching. *)
InitWindow ==
    /\ ClientInit
    /\ win_age = Never
    /\ CollectParked
    /\ ArticleParked
    /\ DocParked

NextWindow ==
    \/ gemini_request
    \/ call_api("_call_api")
    \/ Tick

SpecWindow == InitWindow /\ [][NextWindow]_vars

(* The aggregate narrative sections, generated by either analyzer. *)
NextAggregate ==
    \/ \E m \in GeminiAggregates : gemini_generate(m)
    \/ \E m \in AggregateMethods : call_api(m)
    \/ Tick

SpecAggregate == Init /\ [][NextAggregate]_vars

(* OpenRouterAnalyzer alone, the requests of each _call_api counted.  The    *)
(* caller is one thread: after a 429 the sleep returns and the recursive     *)
(* call is made, so call_api is taken whenever it stays possible.            *)
InitCall ==
    /\ client = "openrouter"
    /\ gemini = gemini_init
    /\ router = router_init
    /\ pc = "idle"
    /\ entry = "none"
    /\ posted = NoPost
    /\ response = "none"
    /\ ret = "none"
    /\ gap = Rested
    /\ win_age = Off
    /\ win_count = 0
    /\ attempts = 0
    /\ budget = MaxRequests
    /\ CollectParked
    /\ ArticleParked
    /\ DocParked

NextCall ==
    \/ call_api("_call_api")
    \/ Tick

SpecCall == InitCall /\ [][NextCall]_vars /\ WF_vars(call_api("_call_api"))

(* Either client making request after request, long enough to fill one       *)
(* window of requests_per_minute requests.  The first call comes any time    *)
(* after the construction; from then on the only time that passes is the     *)
(* time the client sleeps.                                                   *)
WindowRequests == ROUTER_RPM + 1
FirstCallAfter == {0, 20, 40, WINDOW, Never}

InitQuota ==
    /\ client \in {"gemini", "openrouter"}
    /\ \E waited \in FirstCallAfter :
         /\ gemini = [gemini_init EXCEPT !.since_reset = waited]
         /\ router = [router_init EXCEPT !.since_reset = waited]
    /\ pc = "idle"
    /\ entry = "none"
    /\ posted = NoPost
    /\ response = "none"
    /\ ret = "none"
    /\ gap = Rested
    /\ win_age = Off
    /\ win_count = 0
    /\ attempts = Off
    /\ budget = WindowRequests
    /\ CollectParked
    /\ ArticleParked
    /\ DocParked

NextQuota ==
    \/ gemini_request
    \/ call_api("_call_api")

SpecQuota == InitQuota /\ [][NextQuota]_vars

(* One organization collected by the coordinator. *)
InitCollect ==
    /\ ClientInit
    /\ client = "gemini"
    /\ win_age = Off
    /\ CollectInit
    /\ ArticleParked
    /\ DocParked

SpecCollect == InitCollect /\ [][CollectNext]_vars

InitSingle ==
    /\ ClientInit
    /\ client = "gemini"
    /\ win_age = Off
    /\ SingleInit
    /\ ArticleParked
    /\ DocParked

SpecSingle == InitSingle /\ [][SingleNext]_vars

(* Articles constructed and then enriched by one GeminiAnalyzer. *)
InitAnalyze ==
    /\ ClientInit
    /\ client = "gemini"
    /\ win_age = Off
    /\ CollectParked
    /\ ArticleInit
    /\ DocParked

SpecAnalyze == InitAnalyze /\ [][ArticleNext]_vars

(* _chunk_text applied to one text. *)
InitChunk ==
    /\ ClientInit
    /\ client = "gemini"
    /\ win_age = Off
    /\ CollectParked
    /\ ArticleParked
    /\ ChunkInit
    /\ BatchParked
    /\ PdfParked
    /\ DeepParked

SpecChunk == InitChunk /\ [][call_chunk_text]_vars

InitBatch ==
    /\ ClientInit
    /\ client = "gemini"
    /\ win_age = Off
    /\ CollectParked
    /\ ArticleParked
    /\ ChunkParked
    /\ BatchInit
    /\ PdfParked
    /\ DeepParked

SpecBatch == InitBatch /\ [][BatchNext]_vars

InitExtract ==
    /\ ClientInit
    /\ client = "gemini"
    /\ win_age = Off
    /\ CollectParked
    /\ ArticleParked
    /\ ExtractInit
    /\ BatchParked
    /\ PdfParked
    /\ DeepParked

SpecExtract == InitExtract /\ [][call_extract_content]_vars

InitDownload ==
    /\ ClientInit
    /\ client = "gemini"
    /\ win_age = Off
    /\ CollectParked
    /\ ArticleParked
    /\ ChunkParked
    /\ BatchParked
    /\ PdfInit
    /\ DeepParked

SpecDownload == InitDownload /\ [][download_pdf]_vars

InitDeep ==
    /\ ClientInit
    /\ client = "gemini"
    /\ win_age = Off
    /\ CollectParked
    /\ ArticleParked
    /\ ChunkParked
    /\ BatchParked
    /\ PdfInit
    /\ DeepInit

SpecDeep == InitDeep /\ [][DeepNext]_vars

-----------------------------------------------------------------------------
(* Properties of the model clients *)

requests_per_minute(c) == IF c = "gemini" THEN GEMINI_RPM ELSE ROUTER_RPM
min_delay(c) == IF c = "gemini" THEN GEMINI_MIN_DELAY ELSE ROUTER_MIN_DELAY
LAST_MODEL == NUM_MODELS - 1
NonThrottling == {"bad_shape", "bad_json", "error", "exception"}

(* C1: in every sliding 60-second interval the number of requests the rate  *)
(* limiter admits is at most requests_per_minute.  The observer counts the   *)
(* admissions in the 60 seconds that start at any admitted request.          *)
C1_SlidingWindowCap == win_count <= requests_per_minute(client)

(* C2: two consecutive requests admitted by the rate limiter are at least    *)
(* the minimum delay apart (4 s Gemini, 3 s OpenRouter), retries included.   *)
C2_MinDelayApart == gap >= min_delay(client)

\* the retry that follows a model switch is admitted exactly min_delay later
C2_Witness ==
    /\ client = "openrouter"
    /\ router.current_model_index = 1
    /\ posted = 1
    /\ router.failed_requests = MAX_CONSECUTIVE_ERRORS + 1
    /\ gap = ROUTER_MIN_DELAY

(* C3: once quota_exhausted is true it stays true, and every later step      *)
(* sends no request, returns the entered method's fallback value and leaves  *)
(* request_count, current_model_index and consecutive_errors unchanged.      *)
C3_ExhaustedIsTerminal ==
    [][router.quota_exhausted =>
         /\ router'.quota_exhausted
         /\ posted' = NoPost
         /\ response' \in {"refused", "none"}
         /\ ret' = fallback(entry')
         /\ router'.request_count = router.request_count
         /\ router'.current_model_index = router.current_model_index
         /\ router'.consecutive_errors = router.consecutive_errors]_vars

\* a generate_* call made after the quota was exhausted
C3_Witness ==
    /\ router.quota_exhausted
    /\ response = "refused"
    /\ entry = "generate_analysis"
    /\ ret = ""

(* C4: the model index changes exactly when a 429 brings consecutive_errors  *)
(* to 3 while a next model exists; consecutive_errors is then 0 and the      *)
(* pending request is retried against the next model.                        *)
C4_SwitchAtThreshold ==
    [][/\ router'.current_model_index # router.current_model_index =>
            /\ router'.current_model_index = router.current_model_index + 1
            /\ response' = "throttled"
            /\ router.consecutive_errors + 1 = MAX_CONSECUTIVE_ERRORS
            /\ router'.consecutive_errors = 0
            /\ pc' = "retry"
       /\ ( /\ response' = "throttled"
            /\ router.consecutive_errors + 1 >= MAX_CONSECUTIVE_ERRORS
            /\ router.current_model_index < LAST_MODEL ) =>
            /\ router'.current_model_index = router.current_model_index + 1
            /\ router'.consecutive_errors = 0
            /\ pc' = "retry"
       /\ (pc = "retry" /\ response' # "none") =>
            /\ entry' = entry
            /\ posted' = router.current_model_index]_vars

\* the retried request has reached the model switched to
C4_Witness ==
    /\ router.current_model_index = 1
    /\ posted = 1
    /\ response = "ok"
    /\ router.failed_requests = MAX_CONSECUTIVE_ERRORS

(* C5: quota_exhausted becomes true exactly when a 429 brings                *)
(* consecutive_errors to 3 on the last model; the call then returns its      *)
(* fallback (None) without a retry.  It is never true while a later model    *)
(* is available.                                                             *)
C5_ExhaustedOnLastModel ==
    [][/\ (~router.quota_exhausted /\ router'.quota_exhausted) =>
            /\ response' = "throttled"
            /\ router.current_model_index = LAST_MODEL
            /\ router'.current_model_index = LAST_MODEL
            /\ router'.consecutive_errors = MAX_CONSECUTIVE_ERRORS
            /\ pc' = "idle"
            /\ ret' = fallback(entry')
       /\ ( /\ response' = "throttled"
            /\ router.consecutive_errors + 1 >= MAX_CONSECUTIVE_ERRORS
            /\ router.current_model_index = LAST_MODEL ) =>
            /\ router'.quota_exhausted
            /\ pc' = "idle"
            /\ ret' = fallback(entry')
       /\ router'.quota_exhausted => router'.current_model_index = LAST_MODEL]_vars

\* the third 429 of the last model has just exhausted the quota
C5_Witness ==
    /\ router.quota_exhausted
    /\ response = "throttled"
    /\ posted = LAST_MODEL
    /\ entry = "_call_api"
    /\ ret = "None"

(* C6: current_model_index never decreases, and no request goes to a model   *)
(* before the current one.                                                   *)
C6_NoReturnToEarlierModel ==
    [][/\ router'.current_model_index >= router.current_model_index
       /\ (client = "openrouter" /\ posted' # NoPost) =>
            posted' >= router.current_model_index]_vars

\* a request answered by the third model after two switches
C6_Witness ==
    /\ router.current_model_index = 2
    /\ posted = 2
    /\ response = "ok"

(* C7: a failure other than a 429 adds one to failed_requests, leaves        *)
(* current_model_index and quota_exhausted unchanged, and the call returns   *)
(* its fallback (None) at once, with no retry.                               *)
C7_NonThrottlingFailure ==
    [][response' \in NonThrottling =>
         /\ router'.failed_requests = router.failed_requests + 1
         /\ router'.current_model_index = router.current_model_index
         /\ router'.quota_exhausted = router.quota_exhausted
         /\ pc' = "idle"
         /\ ret' = fallback(entry')]_vars

\* a non-throttling failure met with two consecutive 429s already counted
C7_Witness ==
    /\ response \in NonThrottling
    /\ router.consecutive_errors = MAX_CONSECUTIVE_ERRORS - 1
    /\ router.failed_requests = MAX_CONSECUTIVE_ERRORS
    /\ pc = "idle"

-----------------------------------------------------------------------------
(* Properties of the collectors and the coordinator *)

no_duplicate_urls(s) ==
    \A i, j \in 1..Len(s) : s[i].url = s[j].url => i = j

all_within(s, cutoff) ==
    \A i \in 1..Len(s) :
        s[i].published_date # None => s[i].published_date >= cutoff

\* the cutoff of the collector created first in this run
first_cutoff == IF rss.status = "returned" THEN rss.cutoff_date ELSE web.cutoff_date

(* C8: the list _collect_from_org returns for an organization, and every     *)
(* value of collect_all's mapping, holds no two articles with the same url.  *)
C8_NoDuplicateUrl ==
    /\ no_duplicate_urls(org_out)
    /\ \A short_name \in DOMAIN results : no_duplicate_urls(results[short_name])

\* feed and page collector both returned the same url; the mapping holds it once
C8_Witness ==
    /\ cpc = "done"
    /\ \E i \in 1..Len(rss.out) : \E j \in 1..Len(web.out) : rss.out[i].url = web.out[j].url
    /\ Len(results[org.short_name]) >= 2

-----------------------------------------------------------------------------
(* Properties of the Article *)

(* C10: from construction through enrichment, on the normal path and on the  *)
(* fallback path, 1 <= importance_score <= 10.                               *)
C10_ImportanceInRange ==
    stage # "off" =>
        /\ 1 <= article.importance_score
        /\ article.importance_score <= 10

\* the level the score stands for
level_of(score) ==
    CASE score >= 8 -> "Critical"
      [] score >= 5 /\ score < 8 -> "Important"
      [] OTHER -> "Standard"

(* C11: for every Article, importance_level is "Critical" iff                *)
(* importance_score >= 8, "Important" iff 5 <= importance_score < 8, and     *)
(* "Standard" otherwise.                                                     *)
C11_LevelMatchesScore ==
    stage # "off" => article.importance_level = level_of(article.importance_score)

\* the bonuses of an item, read off its fields
source_bonus(a) ==
    CASE a.source \in {"Fed", "ECB", "RBI", "IMF", "World Bank", "BoE", "BoJ", "PBoC"} -> 3
      [] a.source \in {"OECD", "WEF", "BIS", "McKinsey", "Goldman Sachs", "JP Morgan"} -> 2
      [] OTHER -> 0

content_type_bonus(a) ==
    CASE a.content_type \in {"report", "data_release", "speech"} -> 2
      [] a.content_type \in {"working_paper", "expert_opinion"} -> 1
      [] OTHER -> 0

keyword_bonus(a) == IF a.critical_keyword THEN 2 ELSE 0

(* C12: the score of an analyzed item is min(10, 3 + source bonus +          *)
(* content-type bonus + keyword bonus); a critical-source report whose title *)
(* holds a market-moving keyword scores 10 and is "Critical".                *)
C12_ScoreFormula ==
    stage = "analyzed" =>
        /\ article.importance_score =
               Min(10, 3 + source_bonus(article) + content_type_bonus(article)
                         + keyword_bonus(article))
        /\ ( /\ article.source \in critical_sources
             /\ article.content_type = "report"
             /\ article.critical_keyword ) =>
               /\ article.importance_score = 10
               /\ article.importance_level = "Critical"

\* a Fed report on a rate decision, analyzed
C12_Witness ==
    /\ stage = "analyzed"
    /\ article.source = "Fed"
    /\ article.content_type = "report"
    /\ article.critical_keyword
    /\ article.importance_score = 10

-----------------------------------------------------------------------------
(* Properties of collect_all over several organizations *)

RECURSIVE total_articles(_, _)
total_articles(names, res) ==
    IF names = {}
    THEN 0
    ELSE LET name == CHOOSE n \in names : TRUE
         IN  Len(res[name]) + total_articles(names \ {name}, res)

-----------------------------------------------------------------------------
(* Properties of _chunk_text *)

\* chunk i without its leading overlap
without_overlap(chunk, lap) == SubSeq(chunk, lap + 1, Len(chunk))

RECURSIVE rejoined(_, _)
rejoined(list, lap) ==
    IF list = <<>>
    THEN <<>>
    ELSE IF Len(list) = 1
         THEN list[1]
         ELSE rejoined(SubSeq(list, 1, Len(list) - 1), lap)
              \o without_overlap(list[Len(list)], lap)

(* C14: the chunks, each but the first without its leading overlap,          *)
(* concatenated in order give the original text back.                        *)
C14_ChunksRejoin ==
    kpc = "chunked" => rejoined(chunks, overlap) = text

(* C15: no chunk is longer than the target chunk size, wherever it ends.     *)
C15_ChunkWithinSize ==
    \A i \in 1..Len(chunks) : Len(chunks[i]) <= chunk_size

\* a text cut at a sentence break, followed by a chunk of full size
C15_Witness ==
    /\ kpc = "chunked"
    /\ Len(chunks) >= 2
    /\ chunks[1][Len(chunks[1])] = "."
    /\ Len(chunks[1]) < chunk_size
    /\ \E i \in 1..Len(chunks) : Len(chunks[i]) = chunk_size


-----------------------------------------------------------------------------
(* analyze_batch *)

\* the fields of an article that analyze_article never assigns
same_item(a, b) ==
    /\ a.source = b.source
    /\ a.key_phrase = b.key_phrase
    /\ a.critical_keyword = b.critical_keyword
    /\ a.expert = b.expert

\* the values of the except branch of analyze_article
has_fallback_values(a) ==
    /\ a.ai_summary = "summary[:150]"
    /\ a.ai_analysis = ""
    /\ a.ai_category = "General"
    /\ a.importance_score = 3
    /\ a.importance_level = "Standard"

(* C16: analyze_batch processes each item exactly once in input order: the   *)
(* result grows only by the article just analyzed, item i of the result is   *)
(* item i of the input, and the returned list is as long as the input; an    *)
(* item whose analysis fails carries the fallback values (truncated summary, *)
(* category "General", score 3, level "Standard"), is appended like any      *)
(* other, and the loop goes on to the next item.                             *)
C16_BatchInOrder ==
    [][ /\ Len(analyzed') <= Len(batch_articles)
        /\ \A i \in 1..Len(analyzed') : same_item(analyzed'[i], batch_articles[i])
        /\ \A i \in 1..Len(analyzed) :
              i <= Len(analyzed') /\ analyzed'[i] = analyzed[i]
        /\ (bpc = "call" /\ stage = "constructed" /\ stage' = "fallback") =>
              (bpc' = "call" /\ has_fallback_values(article'))
        /\ (bpc = "call" /\ stage \in {"analyzed", "fallback"}) =>
              /\ analyzed' = Append(analyzed, article)
              /\ Len(analyzed') = idx
              /\ bpc' = "for"
        /\ (bpc = "for" /\ idx < Len(batch_articles)) =>
              (bpc' = "call" /\ idx' = idx + 1 /\ article' = batch_articles[idx'])
        /\ bpc' = "returned" => Len(analyzed') = Len(batch_articles)
      ]_vars

\* a batch returned whose first item failed and whose second was analyzed
C16_Witness ==
    /\ bpc = "returned"
    /\ Len(analyzed) = 2
    /\ has_fallback_values(analyzed[1])
    /\ analyzed[2].importance_score > 3
    /\ analyzed[2].verification_status = "verified"


-----------------------------------------------------------------------------
(* Aggregate narrative sections *)

\* an aggregate method has returned
aggregate_returned ==
    /\ pc = "idle"
    /\ \/ client = "gemini" /\ entry \in GeminiAggregates
       \/ client = "openrouter" /\ entry \in AggregateMethods

\* the request of the call failed, or the call was refused for the quota
aggregate_failed == response \notin {"ok", "text", "none"}

(* C17: an aggregate narrative call (executive summary, top-5 digest,        *)
(* sentiment, cross-source synthesis, actionable implications) on a          *)
(* non-empty article list whose request fails, or which finds the quota      *)
(* exhausted, returns a non-empty fallback string.                           *)
C17_AggregateNeverEmpty ==
    (aggregate_returned /\ aggregate_failed) => ret # ""


-----------------------------------------------------------------------------
(* download_pdf *)

\* the step is a call of download_pdf for a URL whose cache file exists
cache_hit_call ==
    /\ calls' = calls + 1
    /\ url_hash(pdf_url') \in cache_dir

(* C18, as stated: a call for a URL whose cache file exists returns the      *)
(* cached path and makes no network request, also when the same URL was      *)
(* requested earlier in the run.                                             *)
C18_CachedPathReturned ==
    [][ cache_hit_call =>
          (pdf_ret' = url_hash(pdf_url') /\ ~requested') ]_vars

(* C18, amended: a call for a URL whose cache file exists makes no network   *)
(* request, writes nothing and counts nothing; it returns the cached path    *)
(* and marks the URL processed when the URL is not yet in processed_urls,    *)
(* and returns None when it is.                                              *)
C18_CacheHitNoRequest ==
    [][ cache_hit_call =>
          /\ ~requested'
          /\ cache_dir' = cache_dir
          /\ pdf'.stats = pdf.stats
          /\ pdf'.written = pdf.written
          /\ IF pdf_url' \in pdf.processed_urls
             THEN pdf_ret' = "None" /\ pdf'.processed_urls = pdf.processed_urls
             ELSE /\ pdf_ret' = url_hash(pdf_url')
                  /\ pdf'.processed_urls = pdf.processed_urls \cup {pdf_url'} ]_vars

\* two calls for one URL and no download: a hit, then None for the repeat
C18_Witness ==
    /\ calls = 2
    /\ pdf.processed_urls = {pdf_url}
    /\ url_hash(pdf_url) \in cache_dir
    /\ pdf.stats = pdf_init.stats
    /\ pdf_ret = "None"
    /\ ~requested

(* C19: a downloaded response whose content type does not indicate a PDF     *)
(* and whose body does not start with %PDF is rejected: nothing is written   *)
(* to the cache, None is returned and the URL is not marked processed.       *)
C19_RejectedUnlessConfirmed ==
    [][ (/\ calls' = calls + 1
         /\ requested'
         /\ fetched'.status = "ok"
         /\ ~mentions_pdf(fetched'.content_type)
         /\ ~fetched'.magic)
        => (/\ pdf_ret' = "None"
            /\ cache_dir' = cache_dir
            /\ pdf'.written = pdf.written
            /\ pdf_url' \notin pdf'.processed_urls) ]_vars


-----------------------------------------------------------------------------
(* The deep-analysis loop *)

\* stats entries that count a candidate given up
given_up(p) == p.stats.failed + p.stats.skipped

(* C20: in the deep-analysis loop a download that was attempted and          *)
(* returned nothing, and an extraction that failed, are each counted once    *)
(* in the statistics, and the loop goes on with the next candidate in list   *)
(* order; once the analyzer reports its quota exhausted no further candidate *)
(* is downloaded, extracted or analyzed.                                     *)
C20_LoopSurvivesFailures ==
    [][ /\ (lpc = "for" /\ calls' = calls + 1 /\ requested' /\ pdf_ret' = "None") =>
              /\ given_up(pdf') = given_up(pdf) + 1
              /\ lpc' = "for"
        /\ (lpc = "extract" /\ lpc' # "analyze") =>
              /\ pdf'.stats.failed = pdf.stats.failed + 1
              /\ lpc' = "for"
        /\ (lpc = "for" /\ li < Len(major_articles) /\ ~quota_exhausted) =>
              /\ li' = li + 1
              /\ calls' = calls + 1
              /\ pdf_url' = major_articles[li']
        /\ quota_exhausted =>
              /\ calls' = calls
              /\ pdf'.stats = pdf.stats
              /\ deep_analyzed_count' = deep_analyzed_count
              /\ lpc' \in {"done", "skipped"}
      ]_vars

(* a run in which a download failed, an extraction failed, a later report    *)
(* was analyzed, and the quota ran out with a candidate left                 *)
C20_Witness ==
    /\ lpc = "done"
    /\ pdf.stats.failed >= 2
    /\ pdf.stats.extracted >= 1
    /\ pdf.stats.downloaded >= 2
    /\ deep_analyzed_count >= 1
    /\ quota_exhausted
    /\ li < Len(major_articles)


-----------------------------------------------------------------------------
(* Order and size of the collected lists *)

\* published_date descending, an undated article counting as datetime.min
newest_first(s) ==
    \A i, j \in 1..Len(s) : i < j => sort_key(s[i]) >= sort_key(s[j])

\* number of positions of s that hold a
occurrences(s, a) == Cardinality({ i \in 1..Len(s) : s[i] = a })

\* the two lists hold the same articles, each as often
same_articles(s, t) ==
    /\ Len(s) = Len(t)
    /\ \A i \in 1..Len(s) : occurrences(s, s[i]) = occurrences(t, s[i])

\* the deduplicated articles of the organization being collected
collected_unique ==
    unique_by_url((IF rss.status = "returned" THEN rss.out ELSE <<>>)
                  \o (IF web.status = "returned" THEN web.out ELSE <<>>))

(* C21: the list returned for an organization is sorted by published_date    *)
(* descending with undated articles last, and holds at most the configured   *)
(* maximum; no article left out by the truncation is newer than one kept;    *)
(* the flattened list is sorted the same way and holds exactly the articles  *)
(* of the mapping.                                                           *)
C21_NewestFirstAndLimited ==
    /\ cpc = "returned" =>
          /\ newest_first(org_out)
          /\ Len(org_out) <= max_articles
          /\ \A i \in 1..Len(collected_unique) :
                (\A k \in 1..Len(org_out) : org_out[k] # collected_unique[i]) =>
                    \A k \in 1..Len(org_out) :
                        sort_key(collected_unique[i]) <= sort_key(org_out[k])
    /\ \A short_name \in DOMAIN results :
          /\ newest_first(results[short_name])
          /\ Len(results[short_name]) <= max_articles
    /\ cpc = "flat" =>
          /\ newest_first(flat)
          /\ same_articles(flat, extended(completed, results))

(* both organizations were cut to one article, the last one losing an older  *)
(* or undated article, and the flattened list puts the newer article first   *)
C21_Witness ==
    /\ cpc = "flat"
    /\ max_articles = 1
    /\ Len(collected_unique) = 2
    /\ sort_key(collected_unique[1]) < sort_key(collected_unique[2])
    /\ Len(flat) = 2
    /\ sort_key(flat[1]) > sort_key(flat[2])
    /\ flat[2].published_date = None


-----------------------------------------------------------------------------
(* Termination of _call_api *)

(* C22: one _call_api issues at most (number of models) x (error threshold)  *)
(* = 4 x 3 requests, whatever the provider answers and whatever the model    *)
(* index and error count it starts from, and a call waiting to retry after   *)
(* a 429 always comes to return.                                             *)
C22_CallTerminates ==
    /\ [](attempts <= NUM_MODELS * MAX_CONSECUTIVE_ERRORS)
    /\ (pc = "retry") ~> (pc = "idle")

\* a call that was throttled on every model returned after twelve requests
C22_Witness ==
    /\ pc = "idle"
    /\ attempts = NUM_MODELS * MAX_CONSECUTIVE_ERRORS
    /\ router.quota_exhausted
    /\ ret = "None"


-----------------------------------------------------------------------------
(* Themes and the fields enrichment may touch *)

(* C23: once analyze_article has returned, on the normal path or on the      *)
(* fallback path, the themes of the article are not empty.                   *)
C23_ThemesNeverEmpty ==
    stage \in {"analyzed", "fallback"} => article.themes # <<>>

(* C24: analyze_article leaves the fields the collector filled unchanged     *)
(* (source, content_type, and the title, author and summary that the         *)
(* key-phrase, keyword and expert tests read).                               *)
C24_EnrichmentFieldsOnly ==
    [][ (stage = "constructed" /\ stage' \in {"analyzed", "fallback"}) =>
          /\ article'.source = article.source
          /\ article'.content_type = article.content_type
          /\ article'.key_phrase = article.key_phrase
          /\ article'.critical_keyword = article.critical_keyword
          /\ article'.expert = article.expert ]_vars


-----------------------------------------------------------------------------
(* The windows of _chunk_text *)

(* C25: for a target size and an overlap below half of it, _chunk_text       *)
(* returns a finite chunk sequence; the window start strictly increases from *)
(* one iteration to the next, each next window starts exactly overlap        *)
(* characters before the end of the previous one, and every character        *)
(* position of the text lies in some window.                                 *)
C25_WindowsAdvanceAndCover ==
    (kpc = "chunked" /\ overlap < chunk_size \div 2) =>
        LET windows == chunk_windows(text, chunk_size, overlap)
        IN  /\ Len(chunks) <= Len(windows)
            /\ windows[1][1] = 0
            /\ \A k \in 1..(Len(windows) - 1) :
                 /\ windows[k + 1][1] > windows[k][1]
                 /\ windows[k + 1][1] = windows[k][2] - overlap
            /\ \A position \in 0..(Len(text) - 1) :
                 \E k \in 1..Len(windows) :
                     windows[k][1] <= position /\ position < windows[k][2]

C25_Witness ==
    /\ kpc = "chunked"
    /\ overlap < chunk_size \div 2
    /\ Len(chunk_windows(text, chunk_size, overlap)) >= 3
    /\ \E k \in 1..2 :
         chunk_windows(text, chunk_size, overlap)[k][2]
            < chunk_windows(text, chunk_size, overlap)[k][1] + chunk_size


-----------------------------------------------------------------------------
(* The images of an extracted document *)

(* C26: the images list extract_content returns holds only images larger     *)
(* than IMAGE_MIN_BYTES and never more than MAX_IMAGES of them.              *)
C26_ImagesLargeAndCapped ==
    kpc = "extracted" =>
        /\ \A i \in 1..Len(images) : images[i] > IMAGE_MIN_BYTES
        /\ Len(images) <= MAX_IMAGES


-----------------------------------------------------------------------------
(* Requests and the window counter *)

\* the rate-limit attributes of the client in use
limiter == IF client = "gemini" THEN gemini.request_count ELSE router.request_count
limiter_next == IF client = "gemini" THEN gemini'.request_count ELSE router'.request_count
limiter_age == IF client = "gemini" THEN gemini.since_reset ELSE router.since_reset
limiter_rpm == IF client = "gemini" THEN GEMINI_RPM ELSE ROUTER_RPM
limiter_delay == IF client = "gemini" THEN GEMINI_MIN_DELAY ELSE ROUTER_MIN_DELAY

(* C27: every request is preceded by exactly one rate-limit step of its      *)
(* client: a step that makes a request raises request_count by one, or sets  *)
(* it to one when the step reset the window (the window had expired or was   *)
(* full); no other step changes request_count; and request_count never       *)
(* exceeds requests_per_minute.                                              *)
C27_EveryRequestCounted ==
    /\ [](gemini.request_count <= GEMINI_RPM /\ router.request_count <= ROUTER_RPM)
    /\ [][ /\ posted' # NoPost =>
                \/ limiter_next = limiter + 1
                \/ /\ limiter_next = 1
                   /\ \/ limiter >= limiter_rpm
                      \/ limiter_age + limiter_delay > WINDOW
           /\ posted' = NoPost => limiter_next = limiter ]_vars

\* the sixteenth request of sixteen answered ones found the window full
C27_Witness ==
    /\ client = "openrouter"
    /\ router.successful_requests = ROUTER_RPM + 1
    /\ router.failed_requests = 0
    /\ router.request_count = 1
    /\ router.since_reset = 0
    /\ posted # NoPost


-----------------------------------------------------------------------------
(* The quota attributes between two activations of _call_api *)

-----------------------------------------------------------------------------
(* The mapping collect_all builds *)

-----------------------------------------------------------------------------
(* collect_single *)

(* C30: for a name that matches an organization's short name regardless of   *)
(* case, collect_single returns the list collect_all collected for that      *)
(* organization.                                                             *)
C30_SingleReturnsCollected ==
    cpc = "single" =>
        \A o \in orgs_to_process : single = results[organizations[o].short_name]

=============================================================================
